---------------------------- MODULE Spec2Model ----------------------------
(***************************************************************************)
(* The replicated directory of soroban: the json-rpc handlers              *)
(* Directory.List / Directory.Add / Directory.Remove of                    *)
(* services/directory.go, the signature checks that gate them, and the     *)
(* collaborators they call (policy lookup, signature primitive, directory  *)
(* backend, p2p publish); and the loop of StartP2PDirectory that applies   *)
(* the messages of the peers, sends the heartbeat and watches for a        *)
(* partition.                                                              *)
(*                                                                         *)
(* Conventions                                                             *)
(*  - A Go string that the code formats, concatenates or prefix-matches    *)
(*    (a namespace, an entry, a signed message) is a sequence of           *)
(*    one-character strings.  Strings only compared or tested for          *)
(*    emptiness (keys, algorithms, status) are TLA+ strings.               *)
(*  - An int64 count of nanoseconds n is the pair <<n \div 1000000,        *)
(*    n % 1000000>> (TLC integers are 32 bits wide; 24h is 8.64e13 ns).    *)
(*    Only non-negative counts are used.                                   *)
(*  - A signature is the triple (signer, algorithm, message) it was made   *)
(*    from; only the holder of a key produces triples naming that key.     *)
(***************************************************************************)
EXTENDS Integers, Sequences, FiniteSets, TLC

VARIABLES
    store,      \* DirectoryStore: namespace -> sequence of values (a multiset)
    now,        \* the wall clock, time.Now(), in (ms, ns) form
    published,  \* the events the handler in `last` handed to p2p.PublishJson without error
    last,       \* the rpc call that has run and whose reply is not yet sent
    added,      \* history: the (name, value) pairs an rpc Add stored with success
                \* and that no later removal or expiry has touched
    timeoutDelay,            \* StartP2PDirectory: timeoutDelay, in milliseconds
    lastHeartbeatTimestamp,  \* StartP2PDirectory: lastHeartbeatTimestamp
    timer,      \* the instant the channel of time.After(30 * time.Second) fires
    loop,       \* StartP2PDirectory: "select", "exited" (os.Exit), "returned"
    event,      \* the iteration of the loop that has run and has not yet
                \* gone back to the select
    lastMessage, \* history: the instant of the last receive from p2P.OnMessage
                \* (of the start of the loop before the first)
    cancelled,  \* the context of StartP2PDirectory is cancelled: ctx.Done()
                \* is closed
    running,    \* the rpc handlers that run concurrently, step by step:
                \* handler -> its position, arguments and outcome so far
    wire,       \* history: the events these handlers handed to
                \* p2p.PublishJson without error, in the order of the calls
    peer,       \* another node of the room: its store, the number of events
                \* of `wire` delivered to it and of failures of its backend
    applied     \* history: the handlers whose call of the local directory
                \* succeeded, in the order of the calls

\* the variables of the loop of StartP2PDirectory
loopVars ==
    <<timeoutDelay, lastHeartbeatTimestamp, timer, loop, event, lastMessage,
      cancelled>>

\* the variables of the handlers that run step by step, and of the peer
raceVars == <<running, wire, peer, applied>>

vars == <<store, now, published, last, added, timeoutDelay,
          lastHeartbeatTimestamp, timer, loop, event, lastMessage, cancelled,
          running, wire, peer, applied>>

---------------------------------------------------------------------------
(* Bounds of the model *)

\* the directory backend holds at most this many values in total
MaxEntries == 2

\* the clock advances at most this many times
MaxClock == 1

---------------------------------------------------------------------------
(* Time: int64 nanoseconds as (milliseconds, nanoseconds below the ms) *)

\* p.Timestamp/1000000 in DirectoryEntries.VerifySignature
NanosPerMilli == 1000000

\* delta := 24 * time.Hour, in milliseconds
DeltaMs == 86400000

Nanos(ms, ns) == <<ms, ns>>

\* Time.Before
Before(a, b) == a[1] < b[1] \/ (a[1] = b[1] /\ a[2] < b[2])

\* Time.After
After(a, b) == Before(b, a)

\* Time.Add(d) for a duration of dms milliseconds (dms may be negative)
TimeAdd(t, dms) == <<t[1] + dms, t[2]>>

\* the clock one nanosecond later
NextNano(t) == IF t[2] + 1 = NanosPerMilli THEN <<t[1] + 1, 0>> ELSE <<t[1], t[2] + 1>>

---------------------------------------------------------------------------
(* Strings and fmt.Sprintf *)

DigitChars == <<"0", "1", "2", "3", "4", "5", "6", "7", "8", "9">>

\* %d / %v of a non-negative integer
RECURSIVE Dec(_)
Dec(n) == IF n < 10 THEN <<DigitChars[n + 1]>>
          ELSE Dec(n \div 10) \o <<DigitChars[(n % 10) + 1]>>

\* the low six decimal digits of a nanosecond count, zero padded
RECURSIVE PadDec(_, _)
PadDec(n, width) == IF width = 0 THEN <<>>
                    ELSE PadDec(n \div 10, width - 1) \o <<DigitChars[(n % 10) + 1]>>

\* %d of an int64 nanosecond count held as (ms, ns)
DecNanos(t) == IF t[1] = 0 THEN Dec(t[2]) ELSE Dec(t[1]) \o PadDec(t[2], 6)

\* p.Timestamp/1000000: the int64 division keeps the millisecond part
DivMilli(t) == t[1]

\* strings.HasPrefix
HasPrefix(s, prefix) ==
    /\ Len(prefix) <= Len(s)
    /\ SubSeq(s, 1, Len(prefix)) = prefix

Dot == <<".">>

---------------------------------------------------------------------------
(* The deployment the model explores: clock, namespaces, values, keys, policies *)

\* the clock at start: one millisecond more than 24h after the epoch, so
\* that every instant of the 24h window is a non-negative count
StartClock == Nanos(DeltaMs + 1, 0)

\* Timestamp fields of requests: absent (0), one nanosecond inside the lower
\* end of the window at start, the start itself, and the upper end of the
\* window at start (outside at start, inside one nanosecond later)
TsZero == Nanos(0, 0)
TsLow == NextNano(TimeAdd(StartClock, -DeltaMs))
TsNow == StartClock
TsHigh == TimeAdd(StartClock, DeltaMs)
SignedTimestamps == {TsLow, TsNow, TsHigh}

\* "p" is covered by no policy; "s" and "s.1000001" are covered by policies.
\* Names and values are free text: a name may hold dots and digits, a value
\* may be a number.
PlainName == <<"p">>
ShortName == <<"s">>
DottedName == ShortName \o Dot \o DecNanos(TsLow)
Names == {PlainName, ShortName, DottedName}

Values == {<<"v">>, Dec(DivMilli(TsNow))}

Modes == {"short"}

\* the key pinned by the policies, and a key of somebody else
PinnedKey == "PK1"
OtherKey == "PK2"
Keys == {PinnedKey, OtherKey}

AlgorithmName == "ed25519"

\* ConfidentialEntry{} : what GetConfidentialInfo returns when nothing matches
UnmanagedEntry ==
    [Prefix |-> <<>>, Algorithm |-> "", PublicKey |-> "",
     Confidential |-> FALSE, ReadOnly |-> FALSE]

\* the configured table: prefix "s" is write-protected, the longer prefix
\* "s." is read-protected, both pinned to the same key
ConfidentialKeys ==
    { [Prefix |-> <<"s">>, Algorithm |-> AlgorithmName, PublicKey |-> PinnedKey,
       Confidential |-> FALSE, ReadOnly |-> TRUE],
      [Prefix |-> <<"s", ".">>, Algorithm |-> AlgorithmName, PublicKey |-> PinnedKey,
       Confidential |-> TRUE, ReadOnly |-> FALSE] }

\* confidential.GetConfidentialInfo: the entry with the longest prefix the
\* name starts with, the unmanaged entry when there is none
GetConfidentialInfo(name, publicKey) ==
    LET matching == {e \in ConfidentialKeys : HasPrefix(name, e.Prefix)}
    IN  IF matching = {} THEN UnmanagedEntry
        ELSE CHOOSE e \in matching :
                \A f \in matching : Len(f.Prefix) <= Len(e.Prefix)

---------------------------------------------------------------------------
(* Signatures *)

\* the Signature field left empty
NoSignature == [signer |-> "", alg |-> "", msg |-> <<>>]

\* what the holder of `key` produces for `message` under `algorithm`
Sign(key, algorithm, message) == [signer |-> key, alg |-> algorithm, msg |-> message]

\* error values of the verification; NoError is Go's nil
NoError == "nil"
ErrPublicKey == "PublicKey not allowed"
ErrTimestamp == "timestamp not in time range"
ErrSignature == "invalid signature"

\* confidential.VerifySignature: the signature must be one made with
\* publicKey, under algorithm, over exactly message
ConfidentialVerifySignature(info, publicKey, message, algorithm, signature) ==
    IF /\ signature # NoSignature
       /\ signature.signer = publicKey
       /\ signature.alg = algorithm
       /\ signature.msg = message
    THEN NoError ELSE ErrSignature

\* fmt.Sprintf("%v.%v", p.Name, p.Timestamp/1000000)
ListMessage(name, timestamp) == name \o Dot \o Dec(DivMilli(timestamp))

\* fmt.Sprintf("%s.%d.%s", p.Name, p.Timestamp, p.Entry)
EntryMessage(name, timestamp, entry) == name \o Dot \o DecNanos(timestamp) \o Dot \o entry

\* variant of timeInRange: the window closed at both ends
timeInRangeClosed(start, end, check) == ~Before(check, start) /\ ~After(check, end)

timeInRange(start, end, check) == After(check, start) /\ Before(check, end)

\* (p *DirectoryEntries) VerifySignature, at clock t
DirectoryEntries_VerifySignature(p, info, t) ==
    IF Len(info.Prefix) = 0 \/ info.Algorithm = "" \/ info.PublicKey = "" THEN NoError
    ELSE IF p.PublicKey # info.PublicKey THEN ErrPublicKey
    ELSE IF ~timeInRange(TimeAdd(t, -DeltaMs), TimeAdd(t, DeltaMs), p.Timestamp)
         THEN ErrTimestamp
    ELSE ConfidentialVerifySignature(info, p.PublicKey,
             ListMessage(p.Name, p.Timestamp), p.Algorithm, p.Signature)

\* variant of (p *DirectoryEntry) VerifySignature: the message of List
DirectoryEntry_VerifySignatureListFormat(p, info, t) ==
    IF Len(info.Prefix) = 0 \/ info.Algorithm = "" \/ info.PublicKey = "" THEN NoError
    ELSE IF p.PublicKey # info.PublicKey THEN ErrPublicKey
    ELSE IF ~timeInRange(TimeAdd(t, -DeltaMs), TimeAdd(t, DeltaMs), p.Timestamp)
         THEN ErrTimestamp
    ELSE ConfidentialVerifySignature(info, p.PublicKey,
             ListMessage(p.Name, p.Timestamp), p.Algorithm, p.Signature)

\* (p *DirectoryEntry) VerifySignature, at clock t
DirectoryEntry_VerifySignature(p, info, t) ==
    IF Len(info.Prefix) = 0 \/ info.Algorithm = "" \/ info.PublicKey = "" THEN NoError
    ELSE IF p.PublicKey # info.PublicKey THEN ErrPublicKey
    ELSE IF ~timeInRange(TimeAdd(t, -DeltaMs), TimeAdd(t, DeltaMs), p.Timestamp)
         THEN ErrTimestamp
    ELSE ConfidentialVerifySignature(info, p.PublicKey,
             EntryMessage(p.Name, p.Timestamp, p.Entry), p.Algorithm, p.Signature)

---------------------------------------------------------------------------
(* The directory backend (soroban.Directory) *)

\* a Go []string: nil, or a possibly empty sequence
NilSlice == [nil |-> TRUE, elems |-> <<>>]
Slice(s) == [nil |-> FALSE, elems |-> s]

RECURSIVE SumLen(_, _)
SumLen(st, names) ==
    IF names = {} THEN 0
    ELSE LET n == CHOOSE x \in names : TRUE
         IN  Len(st[n]) + SumLen(st, names \ {n})

\* the number of values the backend holds
DirectoryTotal(st) == SumLen(st, Names)

\* Directory.TimeToLive(mode): the duration class of the mode
TimeToLive(mode) == mode

\* Directory.List(key) without error: the values of the key; for a key that
\* holds nothing, a nil or an empty slice
DirectoryList(st, key) ==
    IF st[key] = <<>> THEN {NilSlice, Slice(<<>>)} ELSE {Slice(st[key])}

\* Directory.Add(key, value, TTL) without error: one more value under the key
DirectoryAdd(st, key, value, ttl) == [st EXCEPT ![key] = Append(@, value)]

\* Directory.Remove(key, value) without error: the value is gone from the key
DirectoryRemove(st, key, value) ==
    [st EXCEPT ![key] = SelectSeq(@, LAMBDA x : x # value)]

\* the sequence without its i-th element
DropAt(seq, i) == SubSeq(seq, 1, i - 1) \o SubSeq(seq, i + 1, Len(seq))

---------------------------------------------------------------------------
(* services/directory.go: helpers of the handlers *)

\* variant of addToDirectory: the value is not stored
addToDirectoryDropped(st, args) == st

addToDirectory(st, args) ==
    DirectoryAdd(st, args.Name, args.Entry, TimeToLive(args.Mode))

removeFromDirectory(st, args) == DirectoryRemove(st, args.Name, args.Entry)

\* rand.Shuffle: every order of the slice
Shuffles(seq) ==
    {[i \in 1..Len(seq) |-> seq[f[i]]] : f \in Permutations(1..Len(seq))}

\* variant of the sampling: cut without shuffling
ShuffleTruncateNoShuffle(entries, limit) ==
    IF limit > 0 /\ limit < Len(entries) THEN {SubSeq(entries, 1, limit)}
    ELSE {entries}

\* List, lines 162-167: the slices the sampling can leave
ShuffleTruncate(entries, limit) ==
    IF limit > 0 /\ limit < Len(entries)
    THEN {SubSeq(sh, 1, limit) : sh \in Shuffles(entries)}
    ELSE {entries}

\* variant of the gate of List: no check
ListVerifySkipped(args, info, t) == NoError

\* List, lines 148-154: the signature is checked for a confidential entry
ListVerify(args, info, t) ==
    IF info.Confidential THEN DirectoryEntries_VerifySignature(args, info, t)
    ELSE NoError

\* variant of the gate of Add: no check
AddVerifySkipped(args, info, t) == NoError

\* Add, lines 204-213: the signature is checked for a read-only entry
AddVerify(args, info, t) ==
    IF info.ReadOnly THEN DirectoryEntry_VerifySignature(args, info, t)
    ELSE NoError

\* Remove, lines 256-262: the signature is checked for a read-only entry
RemoveVerify(args, info, t) ==
    IF info.ReadOnly THEN DirectoryEntry_VerifySignature(args, info, t)
    ELSE NoError

\* variant of the calls of Add: the event is published whatever the store says
AddCallsPublishAlways(verr, addErr) ==
    IF verr # NoError THEN <<>> ELSE <<"directory.Add", "p2p.PublishJson">>

\* Add, lines 217-226: the calls the handler makes, in order, given the
\* verdict of the gate and whether the store call fails
AddCalls(verr, addErr) ==
    IF verr # NoError THEN <<>>
    ELSE IF addErr THEN <<"directory.Add">>
    ELSE <<"directory.Add", "p2p.PublishJson">>

\* variant of the calls of Remove: the event is published after a removal
\* without error only
RemoveCallsPublishOnSuccess(verr, removeErr) ==
    IF verr # NoError THEN <<>>
    ELSE IF removeErr THEN <<"directory.Remove">>
    ELSE <<"directory.Remove", "p2p.PublishJson">>

\* Remove, lines 273-279: the calls the handler makes, in order
RemoveCalls(verr, removeErr) ==
    IF verr # NoError THEN <<>> ELSE <<"directory.Remove", "p2p.PublishJson">>

\* the handler whose calls are `calls` calls PublishJson
CallsPublish(calls) == \E i \in DOMAIN calls : calls[i] = "p2p.PublishJson"

\* the zero values of the reply structs, which a handler that returns
\* before assigning *result leaves in place
ZeroEntriesResponse == [Name |-> <<>>, Entries |-> NilSlice]
ZeroResponse == [Status |-> ""]

\* no rpc call is waiting for its reply
NoCall == [op |-> "none"]

---------------------------------------------------------------------------
(* The rpc requests the model explores *)

Limits == {-1, 0, 1, 2}

\* signatures the holder of the pinned key has put on the wire before and
\* that anybody may send again: that of a List of the read-protected name,
\* and that of a write of the numeric value to the write-protected name
SeenListSignatures ==
    {Sign(PinnedKey, AlgorithmName, ListMessage(DottedName, TsNow))}

SeenEntrySignatures ==
    {Sign(PinnedKey, AlgorithmName,
          EntryMessage(ShortName, TsLow, Dec(DivMilli(TsNow))))}

\* the signature fields of a request, given the message msg[t] the request
\* signs at timestamp t:
\*   - none at all;
\*   - each key claimed with its own signature, at each timestamp;
\*   - the pinned key claimed without a signature and with the signature of
\*     the other key;
\*   - the pinned key claimed with a signature seen before, at each timestamp
AuthFields(msg, seen) ==
    {[PublicKey |-> "", Algorithm |-> "", Signature |-> NoSignature,
      Timestamp |-> TsZero]}
      \cup {[PublicKey |-> k, Algorithm |-> AlgorithmName,
             Signature |-> Sign(k, AlgorithmName, msg[t]), Timestamp |-> t] :
                k \in Keys, t \in SignedTimestamps}
      \cup {[PublicKey |-> PinnedKey, Algorithm |-> AlgorithmName,
             Signature |-> sg, Timestamp |-> TsNow] :
                sg \in {NoSignature, Sign(OtherKey, AlgorithmName, msg[TsNow])}}
      \cup {[PublicKey |-> PinnedKey, Algorithm |-> AlgorithmName,
             Signature |-> sg, Timestamp |-> t] :
                sg \in seen, t \in SignedTimestamps}

\* DirectoryEntry values
EntryRequests ==
    UNION {
      LET msg == [t \in SignedTimestamps |-> EntryMessage(n, t, e)]
      IN  {[Name |-> n, Entry |-> e, Mode |-> m, PublicKey |-> a.PublicKey,
            Algorithm |-> a.Algorithm, Signature |-> a.Signature,
            Timestamp |-> a.Timestamp] :
              a \in AuthFields(msg, SeenListSignatures), m \in Modes} :
      n \in Names, e \in Values}

\* DirectoryEntries values
EntriesRequests ==
    UNION {
      LET msg == [t \in SignedTimestamps |-> ListMessage(n, t)]
      IN  {[Name |-> n, Limit |-> l, PublicKey |-> a.PublicKey,
            Algorithm |-> a.Algorithm, Signature |-> a.Signature,
            Timestamp |-> a.Timestamp] :
              a \in AuthFields(msg, SeenEntrySignatures), l \in Limits} :
      n \in Names}

---------------------------------------------------------------------------
(* StartP2PDirectory: durations, the heartbeat, the messages of the peers *)

\* timeoutDelay := 15 * time.Minute, in milliseconds
StartupTimeout == 900000

\* timeoutDelay = 3 * time.Minute, in milliseconds
HeartbeatTimeout == 180000

\* time.After(30 * time.Second), in milliseconds
TickDelay == 30000

\* the step of the clock while the loop runs: half a tick, so that messages
\* can arrive less than a tick apart
Quantum == TickDelay \div 2

\* the clock of the loop advances at most this many quanta (15 min 30 s)
MaxQuanta == 62

\* the clock advances at most this many quanta while rpc calls and the
\* messages of the peers are mixed
MaxGossipQuanta == 3

\* the Name of a heartbeat
HeartbeatName == <<"p", "2", "p", ".", "h", "e", "a", "r", "t", "b", "e", "a", "t">>

\* the context the gossip convention gives to a heartbeat
HeartbeatContext == "p2p.heartbeat"

\* time.Now().Unix(): the seconds of an instant
UnixSeconds(t) == t[1] \div 1000

\* the zero DirectoryEntry, which ParsePayload fills
ZeroEntry ==
    [Name |-> <<>>, Entry |-> <<>>, Mode |-> "", PublicKey |-> "",
     Algorithm |-> "", Signature |-> NoSignature, Timestamp |-> TsZero]

\* DirectoryEntry{Name: "p2p.heartbeat", Entry: "%d" of the seconds, Mode: "short"}
Heartbeat(t) ==
    [ZeroEntry EXCEPT !.Name = HeartbeatName, !.Entry = Dec(UnixSeconds(t)),
                      !.Mode = "short"]

\* a message of p2P.OnMessage: its context and its payload, which
\* ParsePayload decodes to args or fails on
Message(context, parses, args) ==
    [Context |-> context, Payload |-> [parses |-> parses, args |-> args]]

\* the payload of a write a peer forwards, without signature fields
GossipEntry(name, value) ==
    [ZeroEntry EXCEPT !.Name = name, !.Entry = value, !.Mode = "short"]

\* a heartbeat as the loop publishes it, and one marked by its context only
PayloadHeartbeat == Message("Directory.Add", TRUE, Heartbeat(StartClock))
ContextHeartbeat == Message(HeartbeatContext, TRUE, ZeroEntry)

\* a payload ParsePayload fails on
Malformed == Message("Directory.Add", FALSE, ZeroEntry)

\* the values peers write
GossipValue == <<"v">>

\* the writes of peers to the policy-covered namespaces
GossipWrites ==
    {Message(c, TRUE, GossipEntry(n, GossipValue)) :
        c \in {"Directory.Add", "Directory.Remove"}, n \in {ShortName, DottedName}}

\* the messages that reach the loop while its timing is explored
TimingMessages ==
    {PayloadHeartbeat, Malformed,
     Message("Directory.Add", TRUE, GossipEntry(ShortName, GossipValue)),
     Message("Directory.Remove", TRUE, GossipEntry(ShortName, GossipValue))}

\* the messages that reach the loop while rpc calls and messages are mixed
GossipMessages ==
    {PayloadHeartbeat, ContextHeartbeat, Malformed,
     Message("Directory.Remove", TRUE, Heartbeat(StartClock))} \cup GossipWrites

\* variant of line 94: every message whose payload parses counts as a
\* heartbeat
IsHeartbeatAnyMessage(message) == message.Payload.parses

\* line 94: the payload parsed and args.Name is the Name of a heartbeat
IsHeartbeat(message) ==
    message.Payload.parses /\ message.Payload.args.Name = HeartbeatName

\* variant of the delay after a message: any other message brings the
\* startup delay back
TimeoutAfterReset(message, delay) ==
    IF IsHeartbeat(message) THEN HeartbeatTimeout ELSE StartupTimeout

\* line 95: timeoutDelay after the message has been handled
TimeoutAfter(message, delay) ==
    IF IsHeartbeat(message) THEN HeartbeatTimeout ELSE delay

\* variant of the dispatch: a write the gate of the rpc Add and Remove would
\* refuse is not applied
DispatchGated(message) ==
    LET args == message.Payload.args
        info == GetConfidentialInfo(args.Name, args.PublicKey)
    IN  IF ~message.Payload.parses \/ IsHeartbeat(message) THEN "none"
        ELSE IF AddVerify(args, info, StartClock) # NoError THEN "none"
        ELSE IF message.Context = "Directory.Add" THEN "directory.Add"
        ELSE IF message.Context = "Directory.Remove" THEN "directory.Remove"
        ELSE "none"

\* lines 88-108: the call on the directory a message leads to: none for a
\* payload that does not parse and for a heartbeat, else by the context
Dispatch(message) ==
    IF ~message.Payload.parses \/ IsHeartbeat(message) THEN "none"
    ELSE IF message.Context = "Directory.Add" THEN "directory.Add"
    ELSE IF message.Context = "Directory.Remove" THEN "directory.Remove"
    ELSE "none"

\* variant of the check of the tick: `last` is never too old
PartitionedNever(t, seen, delay) == FALSE

\* line 115: time.Since(lastHeartbeatTimestamp) > timeoutDelay, at clock t
Partitioned(t, seen, delay) == After(t, TimeAdd(seen, delay))

\* variant of the publish of a tick: the heartbeat is sent before the check
TickPublishFirst(partitioned, pubErr) == IF pubErr THEN "failed" ELSE "sent"

\* lines 115-131: what a tick does with the heartbeat: nothing when the
\* process exits, else one call of PublishJson, which fails or not
TickPublish(partitioned, pubErr) ==
    IF partitioned THEN "none" ELSE IF pubErr THEN "failed" ELSE "sent"

\* variant of the end of the receive branch: an error ends the loop
LoopAfterMessageFatal(message, storeErr) ==
    IF ~message.Payload.parses \/ storeErr THEN "returned" ELSE "select"

\* lines 89-92 and 109-112: after a message the loop goes on, also after an
\* error of ParsePayload or of the directory (`continue`)
LoopAfterMessage(message, storeErr) == "select"

\* the select sees no channel of line 133 that is ever ready
DoneReadyNever(isCancelled) == FALSE

\* line 133: ctx.Done() is ready to receive from once the context is
\* cancelled, and stays so
DoneReady(isCancelled) == isCancelled

\* no iteration of the loop is waiting to go back to the select
NoEvent == [kind |-> "none"]

\* the liveness state and the store, as an iteration finds them
Snapshot ==
    [store |-> store, timeoutDelay |-> timeoutDelay,
     lastHeartbeatTimestamp |-> lastHeartbeatTimestamp]

\* the rpc handlers that write
Handlers == {"Add", "Remove"}

\* the context under which a handler publishes its event, lines 226 and 279
ContextOf(h) == IF h = "Add" THEN "Directory.Add" ELSE "Directory.Remove"

\* the peer's switch of lines 102-108 knows Directory.Add only
ApplyAddOnly(st, message) ==
    IF Dispatch(message) = "directory.Add"
    THEN addToDirectory(st, message.Payload.args)
    ELSE st

\* lines 94-108 on the store of a node: what the receive case does with a
\* message when the backend does not fail
Apply(st, message) ==
    IF Dispatch(message) = "directory.Add"
    THEN addToDirectory(st, message.Payload.args)
    ELSE IF Dispatch(message) = "directory.Remove"
         THEN removeFromDirectory(st, message.Payload.args)
         ELSE st

\* no handler has been called, nothing is published, the peer's store is
\* empty as the local one
RaceStart ==
    /\ running = [h \in Handlers |-> [pc |-> "idle"]]
    /\ wire = <<>>
    /\ peer = [store |-> [n \in Names |-> <<>>], delivered |-> 0, errors |-> 0]
    /\ applied = <<>>

\* StartP2PDirectory, lines 81-83: the loop enters its first select
LoopStart ==
    /\ timeoutDelay = StartupTimeout
    /\ lastHeartbeatTimestamp = now
    /\ timer = TimeAdd(now, TickDelay)
    /\ loop = "select"
    /\ event = NoEvent
    /\ lastMessage = now
    /\ cancelled = FALSE

---------------------------------------------------------------------------
(* State machine                                                           *)
(*                                                                         *)
(* A handler runs as one step, from the lookup of the policy to the        *)
(* assignment of *result; the choices it does not control (an error of the *)
(* backend, an error of PublishJson, the order rand.Shuffle leaves) are    *)
(* drawn in the step.  `last` keeps the call, the store before it and the  *)
(* reply until Reply; calls are taken one at a time.  The server puts the  *)
(* directory and the p2p service in the request context before it serves,  *)
(* so the "not found" returns of the handlers are not taken.               *)

Init ==
    /\ store = [n \in Names |-> <<>>]
    /\ now = StartClock
    /\ published = <<>>
    /\ last = NoCall
    /\ added = {}
    /\ LoopStart
    /\ RaceStart

\* (t *Directory) List
List(args) ==
    /\ last = NoCall
    /\ \E listErr \in BOOLEAN :
       \E raw \in DirectoryList(store, args.Name) :
       \E picked \in ShuffleTruncate(raw.elems, args.Limit) :
          LET info == GetConfidentialInfo(args.Name, args.PublicKey)
              verr == ListVerify(args, info, now)
              sampled == args.Limit > 0 /\ args.Limit < Len(raw.elems)
              entries == IF sampled THEN Slice(picked) ELSE raw
              returned == IF entries.nil THEN Slice(<<>>) ELSE entries
              failed == verr # NoError \/ listErr
          IN  /\ last' = [op |-> "List", args |-> args, at |-> now,
                          before |-> store, verr |-> verr,
                          storeErr |-> (verr = NoError /\ listErr),
                          calls |-> IF verr # NoError THEN <<>>
                                    ELSE <<"directory.List">>,
                          publish |-> "none",
                          result |-> IF failed THEN ZeroEntriesResponse
                                     ELSE [Name |-> args.Name, Entries |-> returned]]
              /\ published' = <<>>
              /\ UNCHANGED <<store, now, added>>
              /\ UNCHANGED loopVars
              /\ UNCHANGED raceVars

\* (t *Directory) Add
Add(args) ==
    /\ last = NoCall
    /\ \E addErr \in BOOLEAN, pubErr \in BOOLEAN :
          LET info == GetConfidentialInfo(args.Name, args.PublicKey)
              verr == AddVerify(args, info, now)
              failed == verr # NoError \/ addErr
              calls == AddCalls(verr, addErr)
          IN  /\ ~failed => DirectoryTotal(store) < MaxEntries
              /\ store' = IF failed THEN store ELSE addToDirectory(store, args)
              /\ published' = IF ~CallsPublish(calls) \/ pubErr THEN <<>>
                              ELSE <<[Context |-> "Directory.Add", Payload |-> args]>>
              /\ last' = [op |-> "Add", args |-> args, at |-> now,
                          before |-> store, verr |-> verr,
                          storeErr |-> (verr = NoError /\ addErr),
                          calls |-> calls,
                          publish |-> IF ~CallsPublish(calls) THEN "none"
                                      ELSE IF pubErr THEN "failed" ELSE "sent",
                          result |-> [Status |-> IF failed THEN "error" ELSE "success"]]
              /\ added' = IF failed THEN added
                          ELSE added \cup {<<args.Name, args.Entry>>}
              /\ UNCHANGED now
              /\ UNCHANGED loopVars
              /\ UNCHANGED raceVars

\* (t *Directory) Remove
Remove(args) ==
    /\ last = NoCall
    /\ \E removeErr \in BOOLEAN, pubErr \in BOOLEAN :
          LET info == GetConfidentialInfo(args.Name, args.PublicKey)
              verr == RemoveVerify(args, info, now)
              rejected == verr # NoError
              calls == RemoveCalls(verr, removeErr)
          IN  /\ store' = IF rejected \/ removeErr THEN store
                          ELSE removeFromDirectory(store, args)
              /\ published' = IF ~CallsPublish(calls) \/ pubErr THEN <<>>
                              ELSE <<[Context |-> "Directory.Remove", Payload |-> args]>>
              /\ last' = [op |-> "Remove", args |-> args, at |-> now,
                          before |-> store, verr |-> verr,
                          storeErr |-> (~rejected /\ removeErr),
                          calls |-> calls,
                          publish |-> IF ~CallsPublish(calls) THEN "none"
                                      ELSE IF pubErr THEN "failed" ELSE "sent",
                          result |-> IF rejected THEN ZeroResponse
                                     ELSE [Status |-> IF removeErr THEN "error"
                                                      ELSE "success"]]
              /\ added' = IF rejected \/ removeErr THEN added
                          ELSE added \ {<<args.Name, args.Entry>>}
              /\ UNCHANGED now
              /\ UNCHANGED loopVars
              /\ UNCHANGED raceVars

\* the rpc server encodes the reply and the call is over
Reply ==
    /\ last # NoCall
    /\ last' = NoCall
    /\ published' = <<>>
    /\ UNCHANGED <<store, now, added>>
    /\ UNCHANGED loopVars
    /\ UNCHANGED raceVars

\* the backend drops a value whose time to live has run out
Expire ==
    /\ last = NoCall
    /\ \E n \in Names : \E i \in 1..Len(store[n]) :
          /\ store' = [store EXCEPT ![n] = DropAt(@, i)]
          /\ added' = added \ {<<n, store[n][i]>>}
    /\ UNCHANGED <<now, published, last>>
    /\ UNCHANGED loopVars
    /\ UNCHANGED raceVars

\* the last instant the model's clock reaches
ClockEnd == Nanos(StartClock[1], StartClock[2] + MaxClock)

\* time passes
AdvanceClock ==
    /\ last = NoCall
    /\ Before(now, ClockEnd)
    /\ now' = NextNano(now)
    /\ UNCHANGED <<store, published, last, added>>
    /\ UNCHANGED loopVars
    /\ UNCHANGED raceVars

Next ==
    \/ \E args \in EntriesRequests : List(args)
    \/ \E args \in EntryRequests : Add(args)
    \/ \E args \in EntryRequests : Remove(args)
    \/ Reply
    \/ Expire
    \/ AdvanceClock

Spec == Init /\ [][Next]_vars

---------------------------------------------------------------------------
(* The loop of StartP2PDirectory                                           *)
(*                                                                         *)
(* One iteration of the loop is one step: the select takes a message, the  *)
(* timer or the end of the context, and the case runs to its end.  `event` *)
(* keeps what the iteration did until Continue, the return to the `for`,   *)
(* where time.After is evaluated anew.  An iteration takes no time; the    *)
(* clock is monotonic and does not pass the instant the timer fires while  *)
(* the loop waits (the select takes a ready case at once; when several of  *)
(* a message, the timer and ctx.Done() are ready it takes any of them).    *)

\* case message := <-p2P.OnMessage, lines 85-112
Receive(message) ==
    /\ loop = "select"
    /\ event = NoEvent
    /\ last = NoCall
    /\ \E storeErr \in BOOLEAN :
          LET args == message.Payload.args
              heartbeat == IsHeartbeat(message)
              called == Dispatch(message)
              isAdd == called = "directory.Add"
              isRemove == called = "directory.Remove"
          IN  /\ storeErr => called # "none"
              /\ (isAdd /\ ~storeErr) => DirectoryTotal(store) < MaxEntries
              /\ timeoutDelay' = TimeoutAfter(message, timeoutDelay)
              /\ lastHeartbeatTimestamp' =
                    IF heartbeat THEN now ELSE lastHeartbeatTimestamp
              /\ store' = IF isAdd /\ ~storeErr THEN addToDirectory(store, args)
                          ELSE IF isRemove /\ ~storeErr
                               THEN removeFromDirectory(store, args)
                               ELSE store
              /\ added' = IF isAdd /\ ~storeErr
                          THEN added \cup {<<args.Name, args.Entry>>}
                          ELSE IF isRemove /\ ~storeErr
                               THEN added \ {<<args.Name, args.Entry>>}
                               ELSE added
              /\ event' = [kind |-> "message", at |-> now, message |-> message,
                           called |-> called, storeErr |-> storeErr,
                           before |-> Snapshot]
              /\ lastMessage' = now
              /\ loop' = LoopAfterMessage(message, storeErr)
              /\ UNCHANGED <<now, published, last, timer, cancelled>>
              /\ UNCHANGED raceVars

\* case <-time.After(30 * time.Second), lines 114-131
Tick ==
    /\ loop = "select"
    /\ event = NoEvent
    /\ last = NoCall
    /\ ~Before(now, timer)
    /\ \E pubErr \in BOOLEAN :
          LET partitioned ==
                  Partitioned(now, lastHeartbeatTimestamp, timeoutDelay)
              publish == TickPublish(partitioned, pubErr)
          IN  /\ partitioned => ~pubErr
              /\ loop' = IF partitioned THEN "exited" ELSE loop
              /\ published' =
                    IF publish = "sent"
                    THEN <<[Context |-> "Directory.Add", Payload |-> Heartbeat(now)]>>
                    ELSE <<>>
              /\ event' = [kind |-> "tick", at |-> now,
                           partitioned |-> partitioned, publish |-> publish,
                           before |-> Snapshot]
              /\ UNCHANGED <<store, now, last, added, timeoutDelay,
                             lastHeartbeatTimestamp, timer, lastMessage,
                             cancelled>>
              /\ UNCHANGED raceVars

\* the owner of the context cancels it (the shutdown signal); an iteration
\* takes no time, so the signal comes before or after it, also at an instant
\* at which a message or the timer is ready
Cancel ==
    /\ loop = "select"
    /\ event = NoEvent
    /\ last = NoCall
    /\ ~cancelled
    /\ cancelled' = TRUE
    /\ UNCHANGED <<store, now, published, last, added, timeoutDelay,
                   lastHeartbeatTimestamp, timer, loop, event, lastMessage>>
    /\ UNCHANGED raceVars

\* case <-ctx.Done(), lines 133-134
Done ==
    /\ loop = "select"
    /\ event = NoEvent
    /\ last = NoCall
    /\ DoneReady(cancelled)
    /\ loop' = "returned"
    /\ UNCHANGED <<store, now, published, last, added, timeoutDelay,
                   lastHeartbeatTimestamp, timer, event, lastMessage,
                   cancelled>>
    /\ UNCHANGED raceVars

\* back to the `for` of line 83: the select is entered again with a new timer
Continue ==
    /\ loop = "select"
    /\ event # NoEvent
    /\ event' = NoEvent
    /\ timer' = TimeAdd(now, TickDelay)
    /\ published' = <<>>
    /\ UNCHANGED <<store, now, last, added, timeoutDelay,
                   lastHeartbeatTimestamp, loop, lastMessage, cancelled>>
    /\ UNCHANGED raceVars

\* time passes while the loop waits in the select, up to `quanta` quanta
\* after the start; the loop does not wait once ctx.Done() is ready
PassTime(quanta) ==
    /\ loop = "select"
    /\ event = NoEvent
    /\ last = NoCall
    /\ Before(now, timer)
    /\ ~DoneReady(cancelled)
    /\ Before(now, TimeAdd(StartClock, quanta * Quantum))
    /\ now' = TimeAdd(now, Quantum)
    /\ UNCHANGED <<store, published, last, added>>
    /\ UNCHANGED loopVars
    /\ UNCHANGED raceVars

\* the loop alone, over its whole timing
LoopNext ==
    \/ \E message \in TimingMessages : Receive(message)
    \/ Tick
    \/ Cancel
    \/ Done
    \/ Continue
    \/ PassTime(MaxQuanta)

LoopSpec == Init /\ [][LoopNext]_vars

\* the List calls made while messages of peers arrive: every value of the
\* policy-covered namespaces is asked for, without signature fields and with
\* the pinned key's signature
GossipListRequests ==
    {args \in EntriesRequests :
        /\ args.Name \in {ShortName, DottedName}
        /\ args.Limit = 0
        /\ \/ args.PublicKey = ""
           \/ /\ args.PublicKey = PinnedKey
              /\ args.Timestamp = TsNow
              /\ args.Signature =
                   Sign(PinnedKey, AlgorithmName, ListMessage(args.Name, TsNow))}

\* the loop next to the rpc server: messages of peers and List calls
GossipNext ==
    \/ \E message \in GossipMessages : Receive(message)
    \/ Tick
    \/ Cancel
    \/ Done
    \/ Continue
    \/ PassTime(MaxGossipQuanta)
    \/ (event = NoEvent /\ \E args \in GossipListRequests : List(args))
    \/ Reply

GossipSpec == Init /\ [][GossipNext]_vars

\* the loop over a short horizon, with the scheduling the runtime gives it:
\* an iteration that has run goes back to the select (WF on Continue), and
\* the select chooses uniformly at random among its ready cases, so a case
\* that is ready again and again is taken in the end (SF on Done)
ShutdownNext ==
    \/ \E message \in TimingMessages : Receive(message)
    \/ Tick
    \/ Cancel
    \/ Done
    \/ Continue
    \/ PassTime(MaxGossipQuanta)

ShutdownSpec ==
    /\ Init
    /\ [][ShutdownNext]_vars
    /\ WF_vars(Continue)
    /\ SF_vars(Done)

---------------------------------------------------------------------------
(* Add and Remove run concurrently                                         *)
(*                                                                         *)
(* The rpc server runs each call in a goroutine of its own, and a handler  *)
(* takes no lock: between its check of the policy, its call of the         *)
(* directory and its call of PublishJson the other handler may run.  Each  *)
(* of Add and Remove is called once; every step of a handler is a step of  *)
(* the model.  The events go to the peer in the order of the PublishJson   *)
(* calls, and the peer's loop applies them as they come.                   *)

\* the calls made concurrently: writes of one value to the unmanaged and to
\* the write-protected namespace, without signature fields and with the
\* pinned key's signature
RaceRequests ==
    {args \in EntryRequests :
        /\ args.Name \in {PlainName, ShortName}
        /\ args.Entry = GossipValue
        /\ \/ args.PublicKey = ""
           \/ /\ args.PublicKey = PinnedKey
              /\ args.Timestamp = TsNow
              /\ args.Signature =
                   Sign(PinnedKey, AlgorithmName,
                        EntryMessage(args.Name, TsNow, args.Entry))}

\* Add lines 188-213, Remove lines 246-268: the handler is called and checks
\* the policy
Enter(h, args) ==
    /\ running[h].pc = "idle"
    /\ LET info == GetConfidentialInfo(args.Name, args.PublicKey)
           verr == IF h = "Add" THEN AddVerify(args, info, now)
                   ELSE RemoveVerify(args, info, now)
       IN  running' = [running EXCEPT ![h] =
                          [pc |-> IF verr = NoError THEN "store" ELSE "done",
                           args |-> args, verr |-> verr,
                           result |-> IF verr = NoError THEN "pending"
                                      ELSE IF h = "Add" THEN "error" ELSE ""]]
    /\ UNCHANGED <<store, now, published, last, added, wire, peer, applied>>
    /\ UNCHANGED loopVars

\* Add lines 217-224, Remove lines 272-277: the handler calls the directory
StoreCall(h) ==
    /\ running[h].pc = "store"
    /\ \E storeErr \in BOOLEAN :
          LET args == running[h].args
              calls == IF h = "Add" THEN AddCalls(NoError, storeErr)
                       ELSE RemoveCalls(NoError, storeErr)
          IN  /\ (h = "Add" /\ ~storeErr) => DirectoryTotal(store) < MaxEntries
              /\ store' = IF storeErr THEN store
                          ELSE IF h = "Add" THEN addToDirectory(store, args)
                               ELSE removeFromDirectory(store, args)
              /\ added' = IF storeErr THEN added
                          ELSE IF h = "Add"
                               THEN added \cup {<<args.Name, args.Entry>>}
                               ELSE added \ {<<args.Name, args.Entry>>}
              /\ applied' = IF storeErr THEN applied ELSE Append(applied, h)
              /\ running' = [running EXCEPT ![h] =
                    [pc |-> IF CallsPublish(calls) THEN "publish" ELSE "done",
                     args |-> args, verr |-> NoError,
                     result |-> IF storeErr THEN "error" ELSE "success"]]
    /\ UNCHANGED <<now, published, last, wire, peer>>
    /\ UNCHANGED loopVars

\* Add lines 226-235, Remove lines 279-288: the handler publishes its event
\* and sets the result
PublishCall(h) ==
    /\ running[h].pc = "publish"
    /\ \E pubErr \in BOOLEAN :
          wire' = IF pubErr THEN wire
                  ELSE Append(wire, [Context |-> ContextOf(h),
                                     Payload |-> running[h].args])
    /\ running' = [running EXCEPT ![h].pc = "done"]
    /\ UNCHANGED <<store, now, published, last, added, peer, applied>>
    /\ UNCHANGED loopVars

\* the loop of the peer receives the next event and applies it, lines 85-112
Deliver ==
    /\ peer.delivered < Len(wire)
    /\ \E storeErr \in BOOLEAN :
          LET sent == wire[peer.delivered + 1]
              message == Message(sent.Context, TRUE, sent.Payload)
          IN  peer' = [store |-> IF storeErr THEN peer.store
                                 ELSE Apply(peer.store, message),
                       delivered |-> peer.delivered + 1,
                       errors |-> IF storeErr THEN peer.errors + 1
                                  ELSE peer.errors]
    /\ UNCHANGED <<store, now, published, last, added, running, wire, applied>>
    /\ UNCHANGED loopVars

RaceNext ==
    \/ \E h \in Handlers, args \in RaceRequests : Enter(h, args)
    \/ \E h \in Handlers : StoreCall(h)
    \/ \E h \in Handlers : PublishCall(h)
    \/ Deliver

RaceSpec == Init /\ [][RaceNext]_vars

---------------------------------------------------------------------------
(* VerifySignature on its own, over the ConfidentialEntry values a policy  *)
(* table can hold: each of prefix, algorithm and key given or left empty   *)

Policies ==
    {[Prefix |-> prefix, Algorithm |-> algorithm, PublicKey |-> key,
      Confidential |-> TRUE, ReadOnly |-> TRUE] :
        prefix \in {<<>>, ShortName}, algorithm \in {"", AlgorithmName},
        key \in {"", PinnedKey}}

\* (p *DirectoryEntry) VerifySignature(info)
VerifyEntry(p, info) ==
    /\ last = NoCall
    /\ last' = [op |-> "DirectoryEntry.VerifySignature", args |-> p,
                info |-> info, at |-> now,
                verr |-> DirectoryEntry_VerifySignature(p, info, now)]
    /\ UNCHANGED <<store, now, published, added>>
    /\ UNCHANGED loopVars
    /\ UNCHANGED raceVars

\* (p *DirectoryEntries) VerifySignature(info)
VerifyEntries(p, info) ==
    /\ last = NoCall
    /\ last' = [op |-> "DirectoryEntries.VerifySignature", args |-> p,
                info |-> info, at |-> now,
                verr |-> DirectoryEntries_VerifySignature(p, info, now)]
    /\ UNCHANGED <<store, now, published, added>>
    /\ UNCHANGED loopVars
    /\ UNCHANGED raceVars

VerifyNext ==
    \/ \E p \in EntryRequests, info \in Policies : VerifyEntry(p, info)
    \/ \E p \in EntriesRequests, info \in Policies : VerifyEntries(p, info)
    \/ Reply
    \/ AdvanceClock

VerifySpec == Init /\ [][VerifyNext]_vars

---------------------------------------------------------------------------
(* Properties *)

\* the values of a sequence
Range(seq) == {seq[i] : i \in 1..Len(seq)}

\* how often v occurs in seq
Count(seq, v) == Cardinality({i \in 1..Len(seq) : seq[i] = v})

\* seq as a multiset over Values
BagOf(seq) == [v \in Values |-> Count(seq, v)]

\* the multisets of size k contained in the multiset of seq
SubBags(seq, k) ==
    {b \in [Values -> 0..Len(seq)] :
        /\ \A v \in Values : b[v] <= Count(seq, v)
        /\ Len(seq) - k =
             Cardinality({<<v, j>> \in Values \X (1..Len(seq)) :
                             b[v] < j /\ j <= Count(seq, v)})}

\* the policy of the call in `last`
LastInfo == GetConfidentialInfo(last.args.Name, last.args.PublicKey)

\* a policy that pins a prefix, an algorithm and a key
Managed(info) == info.Prefix # <<>> /\ info.Algorithm # "" /\ info.PublicKey # ""

LastIsWrite == last.op \in {"Add", "Remove"}

\* now - 24h < ts < now + 24h, at clock t
StrictlyInWindow(ts, t) ==
    /\ Before(TimeAdd(t, -DeltaMs), ts)
    /\ Before(ts, TimeAdd(t, DeltaMs))

\* the Signature field is the claimed key's signature of the message
SignedBy(args, message) ==
    /\ args.PublicKey # ""
    /\ args.Signature = Sign(args.PublicKey, args.Algorithm, message)

\* the three ways the verification of a write fails
WriteVerificationFails(args, info, t) ==
    \/ args.PublicKey # info.PublicKey
    \/ ~StrictlyInWindow(args.Timestamp, t)
    \/ ~SignedBy(args, EntryMessage(args.Name, args.Timestamp, args.Entry))

\* the three ways the verification of a List fails
ListVerificationFails(args, info, t) ==
    \/ args.PublicKey # info.PublicKey
    \/ ~StrictlyInWindow(args.Timestamp, t)
    \/ ~SignedBy(args, ListMessage(args.Name, args.Timestamp))

\* the call in `last` is a write to a managed read-only namespace
LastIsGatedWrite == LastIsWrite /\ LastInfo.ReadOnly /\ Managed(LastInfo)

\* the call in `last` is a List of a managed confidential namespace
LastIsGatedList == last.op = "List" /\ LastInfo.Confidential /\ Managed(LastInfo)

\* C1: on a managed read-only namespace, an Add or Remove whose verification
\* fails (key differs from the pinned key, timestamp outside the window, bad
\* or missing signature) leaves the store as it was and publishes nothing.
C1_FailedWriteChangesNothing ==
    (LastIsGatedWrite /\ WriteVerificationFails(last.args, LastInfo, last.at))
        => /\ store = last.before
           /\ published = <<>>
           /\ last.publish = "none"

\* C1 witness: a Remove of a stored value of the read-only namespace was
\* refused.
C1_Witness ==
    /\ last.op = "Remove"
    /\ LastIsGatedWrite
    /\ WriteVerificationFails(last.args, LastInfo, last.at)
    /\ last.args.Entry \in Range(store[last.args.Name])

\* C2: when verification fails on a managed read-only namespace, Add and
\* Remove both answer with status "error".
C2_FailedWriteStatusIsError ==
    (LastIsGatedWrite /\ WriteVerificationFails(last.args, LastInfo, last.at))
        => last.result.Status = "error"

\* C3: on a managed read-only namespace, an Add (Remove) with the pinned key,
\* a timestamp strictly inside the 24h window and a valid signature of the
\* write message reaches the store; when the store call succeeds the value
\* is added (removed) and the status is "success".
C3_ValidWriteApplies ==
    (LastIsGatedWrite /\ ~WriteVerificationFails(last.args, LastInfo, last.at))
        => /\ last.verr = NoError
           /\ ~last.storeErr =>
                /\ last.result.Status = "success"
                /\ last.op = "Add" =>
                     store = DirectoryAdd(last.before, last.args.Name,
                                 last.args.Entry, TimeToLive(last.args.Mode))
                /\ last.op = "Remove" =>
                     store = DirectoryRemove(last.before, last.args.Name,
                                 last.args.Entry)

\* C3 witness: a signed Add to the read-only namespace succeeded and the
\* value is in the store.
C3_Witness ==
    /\ last.op = "Add"
    /\ LastIsGatedWrite
    /\ ~WriteVerificationFails(last.args, LastInfo, last.at)
    /\ last.result.Status = "success"
    /\ last.args.Entry \in Range(store[last.args.Name])
    /\ last.args.Entry \notin Range(last.before[last.args.Name])

\* C4: on a namespace no policy covers, List, Add and Remove are let through
\* whatever their signature fields, also with none at all; and a List with
\* limit 0 whose read of the store succeeds (a store error yields the zero
\* reply) returns the name and every value an earlier successful Add put
\* there that no removal or expiry has touched since.
C4_UnmanagedIsOpen ==
    (last.op # "none" /\ LastInfo = UnmanagedEntry)
        => /\ last.verr = NoError
           /\ (LastIsWrite /\ ~last.storeErr) => last.result.Status = "success"
           /\ (last.op = "List" /\ ~last.storeErr) =>
                /\ last.result.Name = last.args.Name
                /\ last.args.Limit = 0 =>
                     \A pair \in added :
                        pair[1] = last.args.Name =>
                            pair[2] \in Range(last.result.Entries.elems)

\* C4 witness: a List without signature fields and with limit 0 returned a
\* value added before to the unmanaged namespace.
C4_Witness ==
    /\ last.op = "List"
    /\ LastInfo = UnmanagedEntry
    /\ last.args.Signature = NoSignature
    /\ last.args.PublicKey = ""
    /\ last.args.Limit = 0
    /\ \E pair \in added :
          /\ pair[1] = last.args.Name
          /\ pair[2] \in Range(last.result.Entries.elems)

\* what a List that is let through and reads n values returns: exactly
\* `limit` of them when 0 < limit < n, all of them otherwise
ReturnsSample(result, stored, limit) ==
    IF 0 < limit /\ limit < Len(stored)
    THEN /\ Len(result) = limit
         /\ \A v \in Values : Count(result, v) <= Count(stored, v)
         /\ Range(result) \subseteq Range(stored)
    ELSE result = stored

\* C5: on a managed confidential namespace, a List whose verification fails
\* returns no entry, whatever the store holds; a List whose verification
\* succeeds and whose read of the store succeeds returns the stored values
\* (all of them, or `limit` of them).
C5_ConfidentialList ==
    LastIsGatedList =>
        IF ListVerificationFails(last.args, LastInfo, last.at)
        THEN last.result.Entries.elems = <<>>
        ELSE /\ last.verr = NoError
             /\ ~last.storeErr =>
                  /\ last.result.Name = last.args.Name
                  /\ ReturnsSample(last.result.Entries.elems,
                         store[last.args.Name], last.args.Limit)

\* C5 witness: a List of the confidential namespace was refused while the
\* store held values for it.
C5_Witness ==
    /\ LastIsGatedList
    /\ ListVerificationFails(last.args, LastInfo, last.at)
    /\ store[last.args.Name] # <<>>
    /\ last.result.Entries.elems = <<>>

\* the call in `last` had to pass a signature check against a managed policy
LastIsGated == LastIsGatedWrite \/ LastIsGatedList

\* the call in `last` was refused: nothing stored, nothing published, no
\* success status and no entry returned
LastRefused ==
    /\ store = last.before
    /\ published = <<>>
    /\ last.verr # NoError
    /\ LastIsWrite => last.result.Status # "success"
    /\ last.op = "List" => last.result.Entries.elems = <<>>

\* the signature of the call in `last` is the claimed key's signature of the
\* message of its operation
LastWellSigned ==
    IF last.op = "List"
    THEN SignedBy(last.args, ListMessage(last.args.Name, last.args.Timestamp))
    ELSE SignedBy(last.args,
             EntryMessage(last.args.Name, last.args.Timestamp, last.args.Entry))

\* C6: whenever a request has to pass verification against a managed policy,
\* a timestamp t that is not strictly between now - 24h and now + 24h (t
\* exactly 24h away included) gets it refused, also with the pinned key and a
\* valid signature.
C6_TimestampWindow ==
    (LastIsGated /\ ~StrictlyInWindow(last.args.Timestamp, last.at))
        => LastRefused

\* C6 witness: a request with the pinned key and a valid signature, stamped
\* exactly 24h from the clock, was refused.
C6_Witness ==
    /\ LastIsGated
    /\ last.args.PublicKey = LastInfo.PublicKey
    /\ LastWellSigned
    /\ \/ last.args.Timestamp = TimeAdd(last.at, DeltaMs)
       \/ last.args.Timestamp = TimeAdd(last.at, -DeltaMs)
    /\ LastRefused

\* the signature sg passes, at clock t, for some List request of a managed
\* namespace pinned to key
VerifiesForSomeList(sg, key, t) ==
    \E lr \in EntriesRequests :
        LET li == GetConfidentialInfo(lr.Name, lr.PublicKey)
        IN  /\ lr.Signature = sg
            /\ Managed(li)
            /\ li.PublicKey = key
            /\ DirectoryEntries_VerifySignature(lr, li, t) = NoError

\* C7: the List message "{name}.{timestamp/1000000}" and the Add/Remove
\* message "{name}.{timestamp}.{entry}" never stand in for each other: under
\* one pinned key, a signature that verifies for a List request is not
\* accepted for an Add/Remove request, and the other way round.  (Stated on
\* the write: the converse is the same pair of requests seen from the List.)
C7_FormatsNeverInterchange ==
    (LastIsGatedWrite
       /\ VerifiesForSomeList(last.args.Signature, LastInfo.PublicKey, last.at))
         => last.verr # NoError

\* C8: the key, timestamp and signature that let Add(name, value) through on
\* a managed read-only namespace do not let Remove(name, value) through, and
\* the other way round.
C8_WriteBoundToOperation ==
    (LastIsGatedWrite /\ last.verr = NoError)
        => IF last.op = "Add"
           THEN RemoveVerify(last.args, LastInfo, last.at) # NoError
           ELSE AddVerify(last.args, LastInfo, last.at) # NoError

\* C9: a List refused by the policy answers exactly like a List of an empty
\* namespace, with the requested name and an empty, non-null entry sequence;
\* no List reply carries a null entry collection.  (Lists whose read of the
\* store fails are left aside here.)
C9_ListRepliesAlike ==
    (last.op = "List" /\ ~last.storeErr)
        => /\ ~last.result.Entries.nil
           /\ last.verr # NoError =>
                last.result = [Name |-> last.args.Name, Entries |-> Slice(<<>>)]

\* C10: a List that is let through and reads n values returns exactly
\* `limit` of them, a sub-multiset of the stored ones, when 0 < limit < n,
\* and all n otherwise; and every sub-multiset of that size is among the
\* results the sampling can leave.
C10_Sampling ==
    /\ (last.op = "List" /\ last.verr = NoError /\ ~last.storeErr)
          => /\ ReturnsSample(last.result.Entries.elems,
                    store[last.args.Name], last.args.Limit)
             /\ BagOf(last.result.Entries.elems) \in
                    {BagOf(r) : r \in ShuffleTruncate(store[last.args.Name],
                                                      last.args.Limit)}
    /\ \A n \in Names : \A limit \in Limits :
          (0 < limit /\ limit < Len(store[n]))
              => {BagOf(r) : r \in ShuffleTruncate(store[n], limit)}
                    = SubBags(store[n], limit)

\* C10 witness: a List with limit 1 returned one of two different stored
\* values, the one stored second.
C10_Witness ==
    /\ last.op = "List"
    /\ last.verr = NoError
    /\ ~last.storeErr
    /\ last.args.Limit = 1
    /\ Len(store[last.args.Name]) = 2
    /\ store[last.args.Name][1] # store[last.args.Name][2]
    /\ last.result.Entries.elems = <<store[last.args.Name][2]>>

\* the call in `last` is an Add (a Remove) the gate let through
LastIsPermitted(op) == last.op = op /\ last.verr = NoError

\* in `calls`, every call of PublishJson comes after the call `first`
CalledBeforePublish(calls, first) ==
    \A i \in DOMAIN calls :
        calls[i] = "p2p.PublishJson" => \E j \in 1..(i - 1) : calls[j] = first

\* C11: for an Add the gate lets through, the store is written before any
\* publish is attempted; PublishJson is called with a Directory.Add event
\* exactly when the store add succeeded; the status is "success" exactly when
\* the store add succeeded, and then the value stays stored, whether or not
\* the publish failed.
C11_AddStoresThenPublishes ==
    LastIsPermitted("Add")
        => /\ CalledBeforePublish(last.calls, "directory.Add")
           /\ CallsPublish(last.calls) <=> ~last.storeErr
           /\ (last.publish # "none") <=> ~last.storeErr
           /\ published =
                 IF last.publish = "sent"
                 THEN <<[Context |-> "Directory.Add", Payload |-> last.args]>>
                 ELSE <<>>
           /\ (last.result.Status = "success") <=> ~last.storeErr
           /\ store = IF last.storeErr THEN last.before
                      ELSE DirectoryAdd(last.before, last.args.Name,
                               last.args.Entry, TimeToLive(last.args.Mode))

\* C11 witness: an Add stored its value, the publish failed, and the status
\* is "success" with the value still stored.
C11_Witness ==
    /\ LastIsPermitted("Add")
    /\ ~last.storeErr
    /\ last.publish = "failed"
    /\ published = <<>>
    /\ last.result.Status = "success"
    /\ Count(store[last.args.Name], last.args.Entry)
         = Count(last.before[last.args.Name], last.args.Entry) + 1

\* C12: for a Remove the gate lets through, PublishJson is called with a
\* Directory.Remove event whether the store removal succeeded or failed, and
\* the status is "success" or "error" by the outcome of the store removal
\* alone, whatever the publish did.
C12_RemovePublishesRegardless ==
    LastIsPermitted("Remove")
        => /\ CallsPublish(last.calls)
           /\ last.publish \in {"sent", "failed"}
           /\ published =
                 IF last.publish = "sent"
                 THEN <<[Context |-> "Directory.Remove", Payload |-> last.args]>>
                 ELSE <<>>
           /\ last.result.Status = IF last.storeErr THEN "error" ELSE "success"

\* C12 witness: the store removal failed, the event was published all the
\* same, and the status is "error".
C12_Witness ==
    /\ LastIsPermitted("Remove")
    /\ last.storeErr
    /\ last.publish = "sent"
    /\ published # <<>>
    /\ last.result.Status = "error"

---------------------------------------------------------------------------
(* Properties of the loop of StartP2PDirectory *)

\* this step is an iteration that receives a message the loop takes for a
\* heartbeat
ReceivesHeartbeat ==
    /\ event = NoEvent
    /\ event'.kind = "message"
    /\ IsHeartbeat(event'.message)

\* C13: the timeout window is 15 minutes or 3 minutes in every state: 15
\* minutes at the start and until the loop receives its first heartbeat, 3
\* minutes from that iteration on, never 15 minutes again; and
\* lastHeartbeatTimestamp never moves backwards.
C13_TimeoutWindow ==
    /\ timeoutDelay = StartupTimeout
    /\ [](timeoutDelay \in {StartupTimeout, HeartbeatTimeout})
    /\ [][/\ timeoutDelay = HeartbeatTimeout => timeoutDelay' = HeartbeatTimeout
          /\ timeoutDelay' # timeoutDelay => ReceivesHeartbeat
          /\ ReceivesHeartbeat => timeoutDelay' = HeartbeatTimeout
          /\ ~Before(lastHeartbeatTimestamp', lastHeartbeatTimestamp)]_vars

\* C13 witness: after the window had shrunk to 3 minutes on a heartbeat, a
\* message that is no heartbeat was handled, later than the heartbeat, and
\* the window is still 3 minutes.
C13_Witness ==
    /\ event.kind = "message"
    /\ ~IsHeartbeat(event.message)
    /\ event.before.timeoutDelay = HeartbeatTimeout
    /\ timeoutDelay = HeartbeatTimeout
    /\ After(lastHeartbeatTimestamp, StartClock)
    /\ After(now, lastHeartbeatTimestamp)

\* at instant t no message has been received for longer than `delay`
SilentLongerThan(t, delay) == After(t, TimeAdd(lastMessage, delay))

\* C14: while the loop runs, once no message of any kind has been received
\* for longer than the current timeout window, the next tick ends the
\* process: a tick that finds such a silence exits without publishing, and
\* the loop is never still running more than one tick delay past the window.
C14_SilenceTerminates ==
    /\ (event.kind = "tick"
           /\ SilentLongerThan(event.at, event.before.timeoutDelay))
          => /\ loop = "exited"
             /\ event.partitioned
             /\ published = <<>>
    /\ loop = "select" => ~SilentLongerThan(now, timeoutDelay + TickDelay)
    /\ loop = "exited" => event.kind = "tick"

\* C14 witness: nothing was received since the start, and the first tick
\* later than 15 minutes after it ended the process.
C14_Witness ==
    /\ loop = "exited"
    /\ lastMessage = StartClock
    /\ timeoutDelay = StartupTimeout
    /\ SilentLongerThan(now, StartupTimeout)
    /\ ~SilentLongerThan(now, StartupTimeout + TickDelay)

\* the iteration in `event` handled a write of a peer and the store call
\* went without error
AppliedGossipWrite ==
    /\ event.kind = "message"
    /\ event.message \in GossipWrites
    /\ ~event.storeErr

\* C15: a message of a peer with context Directory.Add (Directory.Remove) is
\* applied to the store without policy lookup and without signature check,
\* on the read-only and on the confidential namespace alike, also when it
\* carries no signature fields; and a List the gate lets through, whose read
\* of the store succeeds, returns every value a peer's Directory.Add put
\* under the name and that no Directory.Remove has taken away since.
C15_GossipBypassesPolicy ==
    /\ AppliedGossipWrite =>
          LET args == event.message.Payload.args
          IN  /\ event.called # "none"
              /\ event.message.Context = "Directory.Add" =>
                    store = DirectoryAdd(event.before.store, args.Name,
                                args.Entry, TimeToLive(args.Mode))
              /\ event.message.Context = "Directory.Remove" =>
                    store = DirectoryRemove(event.before.store, args.Name,
                                args.Entry)
    /\ (last.op = "List" /\ last.verr = NoError /\ ~last.storeErr) =>
          \A pair \in added :
              pair[1] = last.args.Name =>
                  pair[2] \in Range(last.result.Entries.elems)

\* C15 witness: peers have written, without signature fields, a value to
\* the read-only namespace (where the gate of the rpc Add refuses these
\* fields) and to the confidential namespace, and a signed List of the
\* confidential namespace returns the value.
C15_Witness ==
    /\ last.op = "List"
    /\ LastIsGatedList
    /\ last.verr = NoError
    /\ GossipValue \in Range(last.result.Entries.elems)
    /\ <<last.args.Name, GossipValue>> \in added
    /\ <<ShortName, GossipValue>> \in added
    /\ GossipValue \in Range(store[ShortName])
    /\ LET args == GossipEntry(ShortName, GossipValue)
       IN  AddVerify(args, GetConfidentialInfo(args.Name, args.PublicKey), now)
             # NoError

\* the message is a heartbeat in one of the two forms of the gossip
\* convention: marked by its context, or by the Name of its payload
HeartbeatByConvention(message) ==
    /\ message.Payload.parses
    /\ \/ message.Context = HeartbeatContext
       \/ message.Payload.args.Name = HeartbeatName

\* C16: the loop takes a message for a heartbeat in both forms: one whose
\* context is "p2p.heartbeat" and one whose payload carries the Name
\* "p2p.heartbeat" each set lastHeartbeatTimestamp to the instant of the
\* receive and the window to 3 minutes.
C16_BothHeartbeatForms ==
    (event.kind = "message" /\ HeartbeatByConvention(event.message))
        => /\ lastHeartbeatTimestamp = event.at
           /\ timeoutDelay = HeartbeatTimeout

\* C18: the tick comes every 30 seconds whatever the traffic: once the last
\* heartbeat is older than the current window the process ends within the
\* next 30 seconds, also while other messages keep arriving, so the loop is
\* never found running more than one tick delay past the window.  (The
\* heartbeat of a live node, due every 30 seconds, waits on the same tick.)
C18_TickIndependentOfTraffic ==
    loop = "select"
        => ~After(now, TimeAdd(lastHeartbeatTimestamp, timeoutDelay + TickDelay))

\* the liveness state and the store are as the iteration in `event` found them
EventLeftStateAlone ==
    /\ store = event.before.store
    /\ timeoutDelay = event.before.timeoutDelay
    /\ lastHeartbeatTimestamp = event.before.lastHeartbeatTimestamp

\* C19: a tick does exactly one of two things: when the last heartbeat is
\* older than the window, the process ends and no heartbeat is published;
\* otherwise PublishJson is called once with a heartbeat, and the loop goes
\* on with the liveness state as it was, also when the publish fails.
C19_TickExitsOrPublishes ==
    event.kind = "tick" =>
        IF After(event.at, TimeAdd(event.before.lastHeartbeatTimestamp,
                                   event.before.timeoutDelay))
        THEN /\ loop = "exited"
             /\ event.publish = "none"
             /\ published = <<>>
        ELSE /\ loop = "select"
             /\ event.publish \in {"sent", "failed"}
             /\ published =
                   IF event.publish = "sent"
                   THEN <<[Context |-> "Directory.Add",
                           Payload |-> Heartbeat(event.at)]>>
                   ELSE <<>>
             /\ EventLeftStateAlone

\* C19 witness: the publish of a tick failed, and the loop is back at the
\* select with the 3 minute window and the same last heartbeat.
C19_Witness ==
    /\ event.kind = "tick"
    /\ event.publish = "failed"
    /\ loop = "select"
    /\ timeoutDelay = HeartbeatTimeout
    /\ After(lastHeartbeatTimestamp, StartClock)
    /\ EventLeftStateAlone

\* C20: a message whose payload does not parse changes neither the store
\* nor the liveness state; after it, and after a failure of the store while
\* a Directory.Add or Directory.Remove of a peer is applied, the loop is
\* still running, and its next step is the return to the select, open to
\* later messages and ticks.
C20_ErrorsKeepLoop ==
    /\ [](/\ (event.kind = "message" /\ ~event.message.Payload.parses)
               => (EventLeftStateAlone /\ loop = "select")
          /\ (event.kind = "message" /\ event.storeErr)
               => (store = event.before.store /\ loop = "select"))
    /\ [][(/\ event.kind = "message"
           /\ ~event.message.Payload.parses \/ event.storeErr)
             => (event' = NoEvent /\ loop' = "select")]_vars

\* C20 witness: the store failed on a Directory.Remove of a stored value,
\* after a heartbeat had been received; the value is still stored and the
\* loop is at the select.
C20_Witness ==
    /\ event.kind = "message"
    /\ event.storeErr
    /\ event.message.Context = "Directory.Remove"
    /\ event.message.Payload.args.Entry
          \in Range(store[event.message.Payload.args.Name])
    /\ timeoutDelay = HeartbeatTimeout
    /\ loop = "select"

---------------------------------------------------------------------------
(* Properties of VerifySignature *)

\* `last` is a call of one of the two VerifySignature methods
LastIsVerify ==
    last.op \in {"DirectoryEntry.VerifySignature",
                 "DirectoryEntries.VerifySignature"}

\* C17: VerifySignature succeeds without any check only for the unmanaged
\* policy, whose prefix, algorithm and key are all empty; under a policy that
\* pins a non-empty key, a request passes only with that key and with a
\* timestamp strictly inside the 24h window.
C17_OnlyUnmanagedUnchecked ==
    LastIsVerify
        => /\ last.info = UnmanagedEntry => last.verr = NoError
           /\ (last.info.PublicKey # "" /\ last.verr = NoError)
                => /\ last.args.PublicKey = last.info.PublicKey
                   /\ StrictlyInWindow(last.args.Timestamp, last.at)


---------------------------------------------------------------------------
(* Properties of the end of the loop of StartP2PDirectory *)

\* the context is cancelled and the loop waits in the select for a message
\* or for a timer that has not fired yet
SignalledWhileWaiting ==
    /\ cancelled
    /\ loop = "select"
    /\ event = NoEvent
    /\ Before(now, timer)

\* C21: once the shutdown signal is raised the loop leaves: it does not stay
\* in the select for ever, and when the signal finds it waiting (or waiting
\* again after an iteration) it takes no tick any more, so it publishes no
\* heartbeat, and it returns; a loop that has left changes nothing and
\* publishes nothing
C21_ShutdownReturns ==
    /\ [](SignalledWhileWaiting => [](event.kind # "tick"))
    /\ (SignalledWhileWaiting ~> (loop = "returned"))
    /\ (cancelled ~> (loop # "select"))
    /\ [][loop # "select" => UNCHANGED <<loop, published, store>>]_vars

\* the signal was raised after the loop had waited, iterations ran and
\* the loop has returned
C21_Witness ==
    /\ cancelled
    /\ loop = "returned"
    /\ After(now, StartClock)
    /\ After(lastMessage, StartClock)


---------------------------------------------------------------------------
(* Properties of Add and Remove run concurrently *)

\* Add and Remove were called for the same name and value, both have
\* returned after their call of the directory and their publish succeeded,
\* and the peer has applied both events without failure
RaceSettled ==
    /\ \A h \in Handlers : running[h].pc = "done" /\ running[h].verr = NoError
    /\ running["Add"].args.Name = running["Remove"].args.Name
    /\ running["Add"].args.Entry = running["Remove"].args.Entry
    /\ Len(applied) = 2
    /\ Len(wire) = 2
    /\ peer.delivered = 2
    /\ peer.errors = 0

\* the events were published in the order in which the handlers called the
\* local directory
PublishedInStoreOrder ==
    \A i \in DOMAIN wire :
        i \in DOMAIN applied /\ wire[i].Context = ContextOf(applied[i])

\* C22: nothing orders the publish steps of a concurrent Add and Remove of
\* one (name, value) as their store steps, and nothing resolves the
\* conflict: an event is published only by a handler that is past its call
\* of the directory, the peer has applied the events in the order of their
\* publication, and once both are applied the peer holds what the origin
\* holds exactly when the events were published in the order of the store
\* calls
C22_InterleavingDecides ==
    /\ \A i \in DOMAIN wire :
          \E h \in Handlers :
             /\ wire[i].Context = ContextOf(h)
             /\ running[h].pc = "done"
             /\ wire[i].Payload = running[h].args
             /\ h = "Add" => h \in Range(applied)
    /\ RaceSettled => (peer.store = store <=> PublishedInStoreOrder)

\* C22 witness: the local store applied Add then Remove, the events were
\* published as Remove then Add, and the peer, having applied both, holds
\* the value the origin no longer holds
C22_Witness ==
    /\ RaceSettled
    /\ applied = <<"Add", "Remove">>
    /\ wire[1].Context = "Directory.Remove"
    /\ wire[2].Context = "Directory.Add"
    /\ running["Add"].args.Entry \notin Range(store[running["Add"].args.Name])
    /\ running["Add"].args.Entry
          \in Range(peer.store[running["Add"].args.Name])


---------------------------------------------------------------------------
(* Properties of the receive branch: liveness path and data path *)

\* the payload of the message the loop has received carries the Name
\* "p2p.heartbeat"
ReceivedHeartbeatName ==
    /\ event.message.Payload.parses
    /\ event.message.Payload.args.Name = HeartbeatName

\* C23: in the receive branch a message whose payload Name is
\* "p2p.heartbeat" leads to no call of the directory and leaves the store
\* as it was, under the context Directory.Add as under any other; a message
\* that is not such a heartbeat leaves lastHeartbeatTimestamp and
\* timeoutDelay as they were.
C23_LivenessAndDataDisjoint ==
    event.kind = "message" =>
        IF ReceivedHeartbeatName
        THEN /\ event.called = "none"
             /\ store = event.before.store
        ELSE /\ lastHeartbeatTimestamp = event.before.lastHeartbeatTimestamp
             /\ timeoutDelay = event.before.timeoutDelay

\* C23 witness: a message with the heartbeat Name and the context
\* Directory.Remove arrives while the store holds a value: the store is as
\* before, the liveness state is refreshed.
C23_Witness ==
    /\ event.kind = "message"
    /\ ReceivedHeartbeatName
    /\ event.message.Context = "Directory.Remove"
    /\ \E n \in Names : store[n] # <<>>
    /\ store = event.before.store
    /\ lastHeartbeatTimestamp = event.at
    /\ After(event.at, event.before.lastHeartbeatTimestamp)

============================================================================
